---- MODULE Spec2Model ----
(***************************************************************************)
(* Model of conf.py, the Sphinx configuration of blog.abyx.dev.            *)
(*                                                                         *)
(* conf.py is a Python module body: a straight-line sequence of            *)
(* assignment statements.  Loading it means executing those statements in  *)
(* a namespace (a mapping from names to values); the namespace left behind *)
(* is the configuration.  The model keeps the namespace, the position of   *)
(* the load, and the interpreter state outside the namespace that a module *)
(* body could touch (sys.path, sys.modules, files read).                   *)
(***************************************************************************)
EXTENDS Integers, Sequences, FiniteSets, TLC

VARIABLES
    ns,           \* the configuration namespace: name -> value
    executed,     \* indices of the statements of Program run in this load
    status,       \* "loading" while statements remain, then "loaded"
    loads,        \* number of loads started so far
    sys_path,     \* the interpreter's module search path
    sys_modules,  \* names of the modules imported so far
    io            \* files and URLs accessed so far

vars == <<ns, executed, status, loads, sys_path, sys_modules, io>>

(***************************************************************************)
(* Bounds of the model.                                                    *)
(***************************************************************************)
\* How many times the file is loaded in one behaviour.
MaxLoads == 2

(***************************************************************************)
(* The literals of conf.py, one definition per assignment, named as in the *)
(* source.  A Python list is a sequence, a tuple is a sequence, a dict is  *)
(* a function (record) and a str is a string.                              *)
(***************************************************************************)
None == [type |-> "NoneType"]

project == "AbyxDev's Blog"

copyright == "2022, AbyxDev"

author == "AbyxDev"

\* Mutant: the OpenGraph extension is left out of the list.
extensions_without_opengraph == <<"sphinx.ext.intersphinx">>

extensions == <<"sphinx.ext.intersphinx", "sphinxext.opengraph">>

intersphinx_mapping == [python |-> <<"https://docs.python.org/3", None>>]

templates_path == <<"_templates">>

\* Mutant: every name that starts with an underscore is excluded.
exclude_patterns_underscore == <<"_*", "Thumbs.db", ".DS_Store", "README">>

exclude_patterns == <<"_build", "Thumbs.db", ".DS_Store", "README">>

rst_prolog == "\n.. role:: python(code)\n    :language: python\n    :class: highlight\n"

\* The grave accent of the reStructuredText link, taken out of a two-character
\* literal (the lexer pairs a grave accent with the next apostrophe).
Backtick == SubSeq("`'", 1, 1)

rst_epilog ==
    "\n\n----\n\n*If you have something to say about this page,\nfeel free to* "
    \o Backtick \o "let me know <https://abyx.dev/contact>" \o Backtick \o "_!\n"

html_theme == "furo"

html_static_path == <<"_static">>

\* Mutant: the title keeps the word the assignment is there to remove.
html_title_with_documentation == "AbyxDev's Blog documentation"

html_title == "AbyxDev's Blog"

html_favicon == "_static/favicon.ico"

ogp_site_url == "https://blog.abyx.dev"

ogp_site_name == "AbyxDev's Blog"

ogp_image == "_static/Abyx.png"

ogp_image_alt == "AbyxDev"

\* Mutant: another OpenGraph type.
ogp_type_website == "website"

ogp_type == "article"

(***************************************************************************)
(* Statements.  The module body of conf.py holds assignments only; the     *)
(* path-setup block (an import of os and sys and an insert into sys.path)  *)
(* is commented out and therefore is no statement of Program.              *)
(***************************************************************************)
\* Mutant: the favicon line assigns html_title a second time.
Assign_favicon_as_title(target, value, line) ==
    [op |-> "assign",
     target |-> IF target = "html_favicon" THEN "html_title" ELSE target,
     value |-> value, line |-> line]

Assign(target, value, line) ==
    [op |-> "assign", target |-> target, value |-> value, line |-> line]

Import(module, line) ==
    [op |-> "import", target |-> module, value |-> [module |-> module], line |-> line]

PathInsert(dir, line) ==
    [op |-> "path_insert", target |-> "sys.path", value |-> dir, line |-> line]

\* Mutant: the path-setup block with its three lines uncommented.
PathSetupUncommented ==
    << Import("os", 13), Import("sys", 14), PathInsert(".", 15) >>

\* The path-setup block: all of it is comment, so it holds no statement.
PathSetup == << >>

Settings ==
    << Assign("project", project, 20),
       Assign("copyright", copyright, 21),
       Assign("author", author, 22),
       Assign("extensions", extensions, 30),
       Assign("intersphinx_mapping", intersphinx_mapping, 35),
       Assign("templates_path", templates_path, 40),
       Assign("exclude_patterns", exclude_patterns, 45),
       Assign("rst_prolog", rst_prolog, 47),
       Assign("rst_epilog", rst_epilog, 53),
       Assign("html_theme", html_theme, 66),
       Assign("html_static_path", html_static_path, 71),
       Assign("html_title", html_title, 73),
       Assign("html_favicon", html_favicon, 74),
       Assign("ogp_site_url", ogp_site_url, 78),
       Assign("ogp_site_name", ogp_site_name, 79),
       Assign("ogp_image", ogp_image, 80),
       Assign("ogp_image_alt", ogp_image_alt, 81),
       Assign("ogp_type", ogp_type, 82) >>

Program == PathSetup \o Settings

Stmts == 1..Len(Program)

(***************************************************************************)
(* The effect of one statement on each part of the state.                  *)
(***************************************************************************)
EmptyNamespace == [k \in {} |-> None]

Bind(n, name, value) ==
    [k \in DOMAIN n \cup {name} |-> IF k = name THEN value ELSE n[k]]

\* An assignment and an import bind a name; nothing else touches the namespace.
NsAfter(s, n) ==
    IF s.op \in {"assign", "import"} THEN Bind(n, s.target, s.value) ELSE n

\* Only sys.path.insert(0, dir) changes the search path.
SysPathAfter(s, p) ==
    IF s.op = "path_insert" THEN <<s.value>> \o p ELSE p

\* Only an import adds a module, and finding it reads the file system.
SysModulesAfter(s, m) ==
    IF s.op = "import" THEN m \cup {s.target} ELSE m

IoAfter(s, a) ==
    IF s.op = "import" THEN a \cup {s.target \o ".py"} ELSE a

Exec(i) ==
    /\ ns' = NsAfter(Program[i], ns)
    /\ sys_path' = SysPathAfter(Program[i], sys_path)
    /\ sys_modules' = SysModulesAfter(Program[i], sys_modules)
    /\ io' = IoAfter(Program[i], io)
    /\ executed' = executed \cup {i}

\* The namespace a load of a whole statement sequence leaves, in program order.
RECURSIVE RunFrom(_, _, _)
RunFrom(prog, i, n) ==
    IF i > Len(prog) THEN n ELSE RunFrom(prog, i + 1, NsAfter(prog[i], n))

(***************************************************************************)
(* The state machine.                                                      *)
(***************************************************************************)
\* The interpreter starts with some search path; the namespace is empty.
InitialPaths == { <<>>, <<"/usr/lib/python3">> }

Init ==
    /\ ns = EmptyNamespace
    /\ executed = {}
    /\ status = "loading"
    /\ loads = 1
    /\ sys_path \in InitialPaths
    /\ sys_modules = {}
    /\ io = {}

\* The next statement in program order.
Step ==
    /\ status = "loading"
    /\ \E i \in Stmts :
        /\ executed = 1..(i - 1)
        /\ Exec(i)
    /\ UNCHANGED <<status, loads>>

\* Any statement not yet run in this load, whatever the order.
StepAny ==
    /\ status = "loading"
    /\ \E i \in Stmts \ executed : Exec(i)
    /\ UNCHANGED <<status, loads>>

\* The end of the module body: the namespace is the configuration.
Finish ==
    /\ status = "loading"
    /\ executed = Stmts
    /\ status' = "loaded"
    /\ UNCHANGED <<ns, executed, loads, sys_path, sys_modules, io>>

\* The file is loaded again, into a fresh namespace or into the one it left.
Reload ==
    /\ status = "loaded"
    /\ loads < MaxLoads
    /\ \E fresh \in BOOLEAN :
        ns' = IF fresh THEN EmptyNamespace ELSE ns
    /\ executed' = {}
    /\ status' = "loading"
    /\ loads' = loads + 1
    /\ UNCHANGED <<sys_path, sys_modules, io>>

Next == Step \/ Finish \/ Reload

Spec == Init /\ [][Next]_vars

\* The same file with its statements run in any order.
InitAnyOrder == Init /\ sys_path = <<>>

NextAnyOrder == StepAny \/ Finish \/ Reload

SpecAnyOrder == InitAnyOrder /\ [][NextAnyOrder]_vars

(***************************************************************************)
(* String and path helpers used by the properties below.                   *)
(***************************************************************************)
Range(seq) == { seq[i] : i \in 1..Len(seq) }

Drop(str, k) == SubSeq(str, k + 1, Len(str))

StartsWith(str, prefix) ==
    Len(prefix) <= Len(str) /\ SubSeq(str, 1, Len(prefix)) = prefix

Contains(str, sub) ==
    \E k \in 0..(Len(str) - Len(sub)) : SubSeq(str, k + 1, k + Len(sub)) = sub

\* A shell-style pattern against a whole path, as the exclusion patterns are
\* read: ** is any text, * is any text without a slash, ? is one character
\* other than a slash, and every other character stands for itself.
RECURSIVE GlobMatch(_, _)
GlobMatch(pat, str) ==
    IF pat = "" THEN str = ""
    ELSE IF StartsWith(pat, "**") THEN
        \E k \in 0..Len(str) : GlobMatch(Drop(pat, 2), Drop(str, k))
    ELSE IF StartsWith(pat, "*") THEN
        \E k \in 0..Len(str) :
            /\ ~Contains(SubSeq(str, 1, k), "/")
            /\ GlobMatch(Drop(pat, 1), Drop(str, k))
    ELSE IF StartsWith(pat, "?") THEN
        /\ str # ""
        /\ ~StartsWith(str, "/")
        /\ GlobMatch(Drop(pat, 1), Drop(str, 1))
    ELSE
        /\ str # ""
        /\ SubSeq(str, 1, 1) = SubSeq(pat, 1, 1)
        /\ GlobMatch(Drop(pat, 1), Drop(str, 1))

\* The path itself and every directory above it.
SelfAndAncestors(path) ==
    {path} \cup { SubSeq(path, 1, k - 1) :
                    k \in { j \in 2..Len(path) : SubSeq(path, j, j) = "/" } }

\* A path is hidden when a pattern matches it or a directory it lies in.
Hidden(path, patterns) ==
    \E pat \in Range(patterns) : \E a \in SelfAndAncestors(path) : GlobMatch(pat, a)

UnderOneOf(path, dirs) ==
    \E d \in Range(dirs) : StartsWith(path, d \o "/") /\ Len(path) > Len(d) + 1

Bound(keys) == keys \subseteq DOMAIN ns

Loaded == status = "loaded"

(***************************************************************************)
(* Properties.                                                             *)
(***************************************************************************)
\* The bindings the configuration is expected to hold, key by key.
ExpectedBindings ==
    [ project |-> "AbyxDev's Blog",
      copyright |-> "2022, AbyxDev",
      author |-> "AbyxDev",
      extensions |-> <<"sphinx.ext.intersphinx", "sphinxext.opengraph">>,
      intersphinx_mapping |->
          [python |-> <<"https://docs.python.org/3", [type |-> "NoneType"]>>],
      templates_path |-> <<"_templates">>,
      exclude_patterns |-> <<"_build", "Thumbs.db", ".DS_Store", "README">>,
      rst_prolog |->
          "\n.. role:: python(code)\n    :language: python\n    :class: highlight\n",
      rst_epilog |->
          "\n\n----\n\n*If you have something to say about this page,\n"
          \o "feel free to* " \o SubSeq("`'", 1, 1)
          \o "let me know <https://abyx.dev/contact>" \o SubSeq("`'", 1, 1)
          \o "_!\n",
      html_theme |-> "furo",
      html_static_path |-> <<"_static">>,
      html_title |-> "AbyxDev's Blog",
      html_favicon |-> "_static/favicon.ico",
      ogp_site_url |-> "https://blog.abyx.dev",
      ogp_site_name |-> "AbyxDev's Blog",
      ogp_image |-> "_static/Abyx.png",
      ogp_image_alt |-> "AbyxDev",
      ogp_type |-> "article" ]

\* C1: once conf.py has been loaded, the namespace holds exactly the listed
\* keys, each bound to its expected literal value, and no other key.
C1_ListedKeysBound ==
    Loaded => /\ DOMAIN ns = DOMAIN ExpectedBindings
              /\ \A k \in DOMAIN ExpectedBindings : ns[k] = ExpectedBindings[k]

\* A first load, from the empty namespace, has run to its end.
C1_Witness ==
    /\ Loaded
    /\ loads = 1
    /\ executed = Stmts
    /\ Cardinality(DOMAIN ns) = 18

\* The namespace a load in program order from the empty namespace leaves.
InOrderBindings == RunFrom(Program, 1, EmptyNamespace)

EachKeyAssignedOnce ==
    \A i, j \in Stmts : Program[i].target = Program[j].target => i = j

\* C2: loading is declarative.  Every key is assigned by exactly one statement,
\* and in whatever order the statements run, and however often the file is
\* loaded, each statement that has run leaves its key bound to the value the
\* load in program order gives it, so a finished load always leaves the same
\* bindings.
C2_Declarative ==
    /\ EachKeyAssignedOnce
    /\ \A i \in executed :
        /\ Program[i].target \in DOMAIN ns
        /\ ns[Program[i].target] = InOrderBindings[Program[i].target]
    /\ Loaded => ns = InOrderBindings

\* A repeated load whose statements ran out of program order has finished
\* with every key bound.
C2_Witness ==
    /\ Loaded
    /\ loads = 2
    /\ DOMAIN ns = { Program[i].target : i \in Stmts }

\* C3: a step of the load changes nothing outside the namespace: sys.path and
\* the set of imported modules stay as they are and nothing is read or fetched.
C3_FrameOutsideNamespace ==
    [][/\ sys_path' = sys_path
       /\ sys_modules' = sys_modules
       /\ io' = io]_vars

\* A load has finished, bindings are in place, and the interpreter state is
\* as it was at the start.
C3_Witness ==
    /\ Loaded
    /\ DOMAIN ns # {}
    /\ sys_path = <<"/usr/lib/python3">>
    /\ sys_modules = {}
    /\ io = {}

\* C4: whenever html_title, project and ogp_site_name are bound, html_title
\* does not contain the word "documentation" and is equal to both of them.
C4_OneSiteName ==
    Bound({"html_title", "project", "ogp_site_name"}) =>
        /\ ~Contains(ns["html_title"], "documentation")
        /\ ns["html_title"] = ns["project"]
        /\ ns["html_title"] = ns["ogp_site_name"]

\* The load has finished with the three names bound.
C4_Witness ==
    /\ Loaded
    /\ Bound({"html_title", "project", "ogp_site_name"})
    /\ Len(ns["html_title"]) > 0

\* The extension an option belongs to: intersphinx_mapping is an option of
\* sphinx.ext.intersphinx and every ogp_ key one of sphinxext.opengraph.
OptionsOf(ext) ==
    { k \in DOMAIN ns :
        \/ ext = "sphinx.ext.intersphinx" /\ k = "intersphinx_mapping"
        \/ ext = "sphinxext.opengraph" /\ StartsWith(k, "ogp_") }

Listed(ext) == Bound({"extensions"}) /\ ext \in Range(ns["extensions"])

\* C5: at every point of a load, an extension option that is bound belongs to
\* an extension listed in extensions; and once the load has finished, each
\* listed extension has at least one of its options bound.
C5_OptionsMatchExtensions ==
    /\ \A ext \in {"sphinx.ext.intersphinx", "sphinxext.opengraph"} :
        OptionsOf(ext) # {} => Listed(ext)
    /\ Loaded => \A ext \in Range(ns["extensions"]) : OptionsOf(ext) # {}

\* The load has finished with the intersphinx option and all five ogp_ keys.
C5_Witness ==
    /\ Loaded
    /\ Cardinality(OptionsOf("sphinxext.opengraph")) = 5
    /\ Cardinality(OptionsOf("sphinx.ext.intersphinx")) = 1
    /\ Len(ns["extensions"]) = 2

AssetKeys == {"html_favicon", "ogp_image"}

PathListKeys == {"html_static_path", "templates_path"}

\* C6: once the load has finished, the favicon and the OpenGraph image lie in
\* a directory of html_static_path, and no exclusion pattern matches a static
\* directory, a template directory, either asset, or a directory above them.
C6_AssetsReachable ==
    Loaded =>
        /\ \A k \in AssetKeys : UnderOneOf(ns[k], ns["html_static_path"])
        /\ \A k \in AssetKeys : ~Hidden(ns[k], ns["exclude_patterns"])
        /\ \A k \in PathListKeys : \A d \in Range(ns[k]) :
            ~Hidden(d, ns["exclude_patterns"])

\* The load has finished with both assets, both path lists and the patterns.
C6_Witness ==
    /\ Loaded
    /\ Bound(AssetKeys \cup PathListKeys \cup {"exclude_patterns"})
    /\ Len(ns["exclude_patterns"]) = 4
    /\ SelfAndAncestors(ns["html_favicon"]) = {"_static", "_static/favicon.ico"}

====
